---- MODULE Spec2Model ----
(***************************************************************************)
(* Model of active_erpt_generate_TDK.py: per-board fault-report tables are *)
(* read, turned into output records, matched against a fault-code lookup   *)
(* table, merged and written as one CSV file.                              *)
(*                                                                         *)
(* Text is modelled as a sequence of one-character strings, so that        *)
(* strip / re.sub / lower / split / "in" are computed character by         *)
(* character.  Column names are sequences of tokens; the Chinese column    *)
(* names of the source are transliterated (TLA+ strings are ASCII):        *)
(*   MemberName = 成员名称, Device = 器件, No = 编号 (器件编号 = Device No),  *)
(*   FaultDesc = 故障说明, EnSuffix = （英文）, FaultCode = 故障码,            *)
(*   BoardTag = 板卡标识, ByteAddr = Byte地址, BitPos = bit位.               *)
(***************************************************************************)
EXTENDS Integers, Sequences, FiniteSets, TLC

(* ----------------------------- bounds --------------------------------- *)
\* longest raw string fed to the normalizer on its own
MaxLen == 3
\* most rows of one board's fault-report sheet
MaxRows == 2
\* most rows of the fault-code lookup sheet
MaxLookup == 2
\* most board configurations in paraInfoList
MaxBoards == 2

(* ------------------------------ text ---------------------------------- *)
\* a missing cell (pandas NaN); every cell value is a sequence of strings
NaN == <<"<NaN>">>

LowerLetters == {"a", "b", "c", "n"}
UpperLetters == {"A", "B", "C", "N"}
Digits == {"0", "1", "2", "3", "4", "5", "6", "7", "8", "9"}
Whitespace == {" ", "\n", "\r"}
Punctuation == {"!", ".", "[", "]"}

\* what the regex class \w matches: letters, digits and the underscore
IsWordChar(c) == c \in LowerLetters \cup UpperLetters \cup Digits \cup {"_"}

\* what the regex class \s matches
IsSpaceChar(c) == c \in Whitespace

\* str.lower() on one character
LowerChar(c) ==
  CASE c = "A" -> "a" [] c = "B" -> "b" [] c = "C" -> "c" [] c = "N" -> "n"
    [] OTHER -> c

\* str.upper() on one character
UpperChar(c) ==
  CASE c = "a" -> "A" [] c = "b" -> "B" [] c = "c" -> "C" [] c = "n" -> "N"
    [] OTHER -> c

Lower(s) == [k \in 1..Len(s) |-> LowerChar(s[k])]

Upper(s) == [k \in 1..Len(s) |-> UpperChar(s[k])]

RECURSIVE LStrip(_)
\* drop leading whitespace
LStrip(s) ==
  IF s # <<>> /\ IsSpaceChar(Head(s)) THEN LStrip(Tail(s)) ELSE s

RECURSIVE RStrip(_)
\* drop trailing whitespace
RStrip(s) ==
  IF s # <<>> /\ IsSpaceChar(s[Len(s)])
    THEN RStrip(SubSeq(s, 1, Len(s) - 1))
    ELSE s

\* str.strip()
Strip(s) == RStrip(LStrip(s))

\* re.sub(r'[^\w\s]', '', s): delete every character that is neither a
\* word character nor whitespace
RemovePunct(s) == SelectSeq(s, LAMBDA c : IsWordChar(c) \/ IsSpaceChar(c))

\* the cleaning expression of lines 143 and 158:
\* re.sub(r'[^\w\s]', '', str(x).strip()).lower()
\* (strip first, then delete punctuation, then lowercase)
Normalize(s) == Lower(RemovePunct(Strip(s)))

\* astype(str) / str() on a text cell: NaN becomes the text 'nan'
Str(v) == IF v = NaN THEN <<"n", "a", "n">> ELSE v

\* Python's "a in b" on strings: a is a contiguous run of b
Contains(b, a) ==
  \E k \in 0..(Len(b) - Len(a)) : SubSeq(b, k + 1, k + Len(a)) = a


\* the elements of a sequence
Range(s) == {s[k] : k \in 1..Len(s)}

\* all sequences over S of length at most n
SeqsUpTo(S, n) == UNION {[1..k -> S] : k \in 0..n}

RECURSIVE SplitFrom(_, _, _)
\* str.split(sep): parts of s, cur being the part read so far
SplitFrom(s, sep, cur) ==
  IF s = <<>> THEN <<cur>>
  ELSE IF Head(s) = sep THEN <<cur>> \o SplitFrom(Tail(s), sep, <<>>)
  ELSE SplitFrom(Tail(s), sep, Append(cur, Head(s)))

Split(s, sep) == SplitFrom(s, sep, <<>>)

RECURSIVE CollapseNewlines(_)
\* str.replace(r'[\r\n]+', ' ', regex=True): every run of CR/LF becomes one
\* space
CollapseNewlines(s) ==
  IF s = <<>> THEN <<>>
  ELSE IF Head(s) \in {"\n", "\r"}
    THEN IF Len(s) > 1 /\ s[2] \in {"\n", "\r"}
           THEN CollapseNewlines(Tail(s))
           ELSE <<" ">> \o CollapseNewlines(Tail(s))
    ELSE <<Head(s)>> \o CollapseNewlines(Tail(s))

RECURSIVE IntPart(_)
\* the digits of a float cell before its decimal point
IntPart(s) ==
  IF s = <<>> \/ Head(s) = "." THEN <<>> ELSE <<Head(s)>> \o IntPart(Tail(s))

\* fillna(0).astype(int).astype(str) on a numeric cell: a missing offset
\* is 0, 5.0 is rendered "5"
OffsetStr(v) == IF v = NaN THEN <<"0">> ELSE IntPart(v)

(* --------------------- simulator_vp_prefix_dict ------------------------ *)
\* the keys of simulator_vp_prefix_dict the model distinguishes, with their
\* prefixes (each prefix is one token)
simulator_vp_prefix_dict ==
  [k \in {<<"W", "S">>, <<"R", "S">>} |->
     IF k = <<"W", "S">> THEN <<"wsetc.WsetcVarpool.">>
                         ELSE <<"rsspm_erpt.RSSPM_ERPT_Varpool.">>]

\* the default of get_vp_prefix
DefaultVpPrefix == <<"wsetc.WsetcVarpool.">>

\* get_vp_prefix falls back to the default: dict.get returns None
VpPrefixMissing(pg_name) == pg_name \notin DOMAIN simulator_vp_prefix_dict

\* the value get_vp_prefix returns
get_vp_prefix(pg_name) ==
  IF VpPrefixMissing(pg_name) THEN DefaultVpPrefix
                              ELSE simulator_vp_prefix_dict[pg_name]

(* --------------------------- column names ------------------------------ *)
ColMember == <<"MemberName">>
ColDevice == <<"Device">>
ColDeviceNo == <<"Device", "No">>
ColDesc == <<"FaultDesc">>
ColDescEn == <<"FaultDesc", "EnSuffix">>
ColCode == <<"FaultCode">>
ColBoard == <<"BoardTag">>

\* the tail "_成员名称_器件_器件编号" of the identifier column's name
IdentTail == <<"_", "MemberName", "_", "Device", "_", "Device", "No">>

\* f'{pg_name}_ERPT_ACTIVE.{module_code}_成员名称_器件_器件编号'
IdentCol(pg_name, module_code) ==
  pg_name \o <<"_ERPT_ACTIVE.">> \o module_code \o IdentTail

\* f'{vp_prefix}errRptInject[x][x][x]'
VpCol(vp_prefix) == vp_prefix \o <<"errRptInject[x][x][x]">>

(* ------------------------------ tables --------------------------------- *)
\* a DataFrame: its column names in order and its rows, each row a function
\* from column name to cell
EmptyTable == [columns |-> <<>>, rows |-> <<>>]

\* the row holding vals[k] under cols[k]
RowOf(cols, vals) ==
  [c \in Range(cols) |-> vals[CHOOSE k \in 1..Len(cols) : cols[k] = c]]

RECURSIVE UnionColumns(_, _)
\* the columns of have, then those of more not yet among them, in order
UnionColumns(have, more) ==
  IF more = <<>> THEN have
  ELSE IF Head(more) \in Range(have) THEN UnionColumns(have, Tail(more))
  ELSE UnionColumns(Append(have, Head(more)), Tail(more))

\* a row widened to cols: a column it lacks holds NaN
Widen(row, cols) ==
  [c \in Range(cols) |-> IF c \in DOMAIN row THEN row[c] ELSE NaN]

RECURSIVE ConcatColumns(_)
ConcatColumns(tables) ==
  IF tables = <<>> THEN <<>>
  ELSE UnionColumns(tables[1].columns,
                    ConcatColumns(Tail(tables)))

RECURSIVE ConcatRows(_, _)
ConcatRows(tables, cols) ==
  IF tables = <<>> THEN <<>>
  ELSE [k \in 1..Len(tables[1].rows) |-> Widen(tables[1].rows[k], cols)]
         \o ConcatRows(Tail(tables), cols)

\* pd.concat(all_results, ignore_index=True)
Concat(tables) ==
  LET cols == ConcatColumns(tables)
  IN  [columns |-> cols, rows |-> ConcatRows(tables, cols)]

(* ------------------------------ state ---------------------------------- *)
VARIABLES
  invocation,      \* how the script is started: "no_arg", "bad_config",
                   \* "no_output_dir" (config['output_dir'] does not exist) or "ok"
  config,          \* the loaded configuration: pgName, paraInfoList
  files,           \* the spreadsheets on disk: one sheet per board, and the
                   \* shared lookup sheet
  pc,              \* the statement the run is at
  i,               \* process_all_boards: index of the board being processed
  df_err_rpt,      \* the rows read for the current board
  df_helf_input,   \* the lookup rows read for the current board
  df_output,       \* the current board's output table
  fault_mappings,  \* add_fault_codes_for_board: the lookup sequence built
  pos,             \* add_fault_codes_for_board: index of the row being matched
  matched_count,
  not_matched_count,
  compared,        \* rows of the current board that were compared to the lookup
  written,         \* rows of the current board whose fault code was assigned
  all_results,
  total_processed,
  processed,       \* per board, in order: "ok" or "failed"
  final_df,
  output_file,     \* the CSV file: whether it exists, its columns and rows
  log,             \* the records written to the log file
  console,         \* the lines printed to standard output
  exit_code,       \* -1 while running
  ns,              \* normalizer on its own: the input string
  nout,            \* normalizer on its own: results of one and of two passes
  npc

vars == <<invocation, config, files, pc, i, df_err_rpt, df_helf_input,
          df_output, fault_mappings, pos, matched_count, not_matched_count,
          compared, written, all_results, total_processed, processed,
          final_df, output_file, log, console, exit_code, ns, nout, npc>>

runVars == <<invocation, config, files, pc, i, df_err_rpt, df_helf_input,
             df_output, fault_mappings, pos, matched_count,
             not_matched_count, compared, written, all_results,
             total_processed, processed, final_df, output_file, log, console,
             exit_code>>

normVars == <<ns, nout, npc>>

(* ------------------------------ inputs --------------------------------- *)
\* one row of a board's fault-report sheet
ErrRow(member, byte, desc_en) ==
  [MemberName |-> member, Device |-> <<"C">>, DeviceNo |-> <<"1">>,
   ByteAddr |-> byte, BitPos |-> NaN,
   FaultDesc |-> <<"b", "\r", "\n", "c">>, FaultDescEn |-> desc_en]

\* English fault descriptions of the fault-report rows: missing, equal to a
\* lookup text (and contained in another) up to case and punctuation, empty
\* once cleaned, with punctuation next to a space, matching nothing
DescPool ==
  {NaN, <<"A", "!">>, <<" ", "!">>, <<"a", " ", "!">>, <<"c">>}

\* rows of the lookup sheet: description cell and fault-code cell
LookupPool ==
  {[desc |-> <<"a", "b">>, code |-> <<"1">>],
   [desc |-> <<"A", ".">>, code |-> <<"2">>],
   [desc |-> <<"b">>, code |-> NaN]}

OkSheet(rows) == [status |-> "ok", rows |-> rows]

\* a sheet that cannot be read (file or sheet missing)
MissingSheet == [status |-> "missing", rows |-> <<>>]

\* a sheet that is read but lacks a required column
NoColumnSheet == [status |-> "no_column", rows |-> <<>>]

BoardCfg(fold_name, board_id) ==
  [board_fold_name |-> fold_name, boardId |-> board_id]

\* a board configuration with its sheet
BoardInput(fold_name, sheet) ==
  [cfg |-> BoardCfg(fold_name, <<"7">>), sheet |-> sheet]

\* the inputs of a run
RunInput(inv, pg_name, boards, helf) ==
  [invocation |-> inv,
   config |-> [pgName |-> pg_name,
               paraInfoList |-> [k \in 1..Len(boards) |-> boards[k].cfg]],
   files |-> [erpt |-> [k \in 1..Len(boards) |-> boards[k].sheet],
              helf |-> helf]]

\* runs of one board, over every sheet and every lookup table of the pools
MatchRuns ==
  {RunInput("ok", <<"W", "S">>,
            <<BoardInput(<<"b", "_", "a">>,
                         OkSheet([k \in 1..Len(ds) |->
                                    ErrRow(<<"m">>, <<"5", ".", "0">>, ds[k])]))>>,
            OkSheet(lk)) :
     ds \in SeqsUpTo(DescPool, MaxRows), lk \in SeqsUpTo(LookupPool, MaxLookup)}

\* boards of the runs over several boards: good ones with different module
\* codes, an empty module code, an empty sheet, and the ways a board fails
BoardPool ==
  {BoardInput(<<"b", "_", "a">>,
              OkSheet(<<ErrRow(<<"m">>, <<"5", ".", "0">>, <<"A", "!">>)>>)),
   BoardInput(<<"b", "_", "c", "_", "x">>,
              OkSheet(<<ErrRow(<<"n">>, NaN, <<"c">>),
                        ErrRow(<<"m">>, <<"1", "2", ".", "0">>, NaN)>>)),
   BoardInput(<<"b", "_">>,
              OkSheet(<<ErrRow(<<"m">>, NaN, <<"a">>)>>)),
   BoardInput(<<"b", "_", "a">>, OkSheet(<<>>)),
   BoardInput(<<"b">>,
              OkSheet(<<ErrRow(<<"m">>, NaN, <<"a">>)>>)),
   BoardInput(<<"b", "_", "a">>, MissingSheet),
   BoardInput(<<"b", "_", "a">>, NoColumnSheet)}

\* runs over up to MaxBoards boards, with a known and an unknown platform
BoardRuns ==
  {RunInput("ok", pg, bs, hf) :
     pg \in {<<"W", "S">>, <<"z", "z">>},
     bs \in SeqsUpTo(BoardPool, MaxBoards),
     hf \in {OkSheet(<<[desc |-> NaN, code |-> <<"3">>],
                        [desc |-> <<"A", ".">>, code |-> <<"2">>]>>),
             MissingSheet}}

\* runs that end before any board is processed
EarlyExitRuns ==
  {RunInput(inv, <<"W", "S">>, <<>>, OkSheet(<<>>)) :
     inv \in {"no_arg", "bad_config", "no_output_dir"}}

NoFile == [exists |-> FALSE, columns |-> <<>>, rows |-> <<>>]

InitRun(input) ==
  /\ invocation = input.invocation
  /\ config = input.config
  /\ files = input.files
  /\ pc = "main"
  /\ i = 0
  /\ df_err_rpt = <<>>
  /\ df_helf_input = <<>>
  /\ df_output = EmptyTable
  /\ fault_mappings = <<>>
  /\ pos = 0
  /\ matched_count = 0
  /\ not_matched_count = 0
  /\ compared = {}
  /\ written = {}
  /\ all_results = <<>>
  /\ total_processed = 0
  /\ processed = <<>>
  /\ final_df = EmptyTable
  /\ output_file = NoFile
  /\ log = <<>>
  /\ console = <<>>
  /\ exit_code = -1

NormIdle == ns = <<>> /\ nout = <<>> /\ npc = "idle"

Init ==
  /\ \E input \in MatchRuns \cup BoardRuns \cup EarlyExitRuns : InitRun(input)
  /\ NormIdle

(* ------------------------------ logging -------------------------------- *)
\* one record of the log file: logger.info / warning / error
LogRec(level, event, n) == [level |-> level, event |-> event, n |-> n]

Info(event, n) == LogRec("INFO", event, n)

(* ------------------------------- main ---------------------------------- *)
\* mutant: the run ends reporting success
ExitSuccess(code) == pc' = "exit" /\ exit_code' = 0

\* sys.exit(code), or an exception nothing catches (Python exits with 1)
Exit(code) == pc' = "exit" /\ exit_code' = code

\* main, up to load_config: the argument check
Main ==
  /\ pc = "main"
  /\ IF invocation = "no_arg"
       THEN /\ console' = Append(console, "usage")
            /\ Exit(1)
       ELSE /\ console' = Append(console, "config_file")
            /\ pc' = "load_config"
            /\ UNCHANGED exit_code
  /\ UNCHANGED <<invocation, config, files, i, df_err_rpt, df_helf_input,
                 df_output, fault_mappings, pos, matched_count,
                 not_matched_count, compared, written, all_results,
                 total_processed, processed, final_df, output_file, log>>
  /\ UNCHANGED normVars

load_config ==
  /\ pc = "load_config"
  /\ IF invocation = "bad_config"
       THEN /\ console' = Append(console, "config_error")
            /\ Exit(1)
       ELSE /\ pc' = "setup_logging"
            /\ UNCHANGED <<console, exit_code>>
  /\ UNCHANGED <<invocation, config, files, i, df_err_rpt, df_helf_input,
                 df_output, fault_mappings, pos, matched_count,
                 not_matched_count, compared, written, all_results,
                 total_processed, processed, final_df, output_file, log>>
  /\ UNCHANGED normVars

\* setup_logging and the first logger.info of main; logging.FileHandler
\* opens the log file at once and raises when output_dir does not exist
setup_logging ==
  /\ pc = "setup_logging"
  /\ IF invocation = "no_output_dir"
       THEN /\ Exit(1)
            /\ UNCHANGED log
       ELSE /\ log' = Append(log, Info("start", 0))
            /\ pc' = "process_all_boards"
            /\ UNCHANGED exit_code
  /\ UNCHANGED <<invocation, config, files, i, df_err_rpt, df_helf_input,
                 df_output, fault_mappings, pos, matched_count,
                 not_matched_count, compared, written, all_results,
                 total_processed, processed, final_df, output_file, console>>
  /\ UNCHANGED normVars

(* ------------------------- process_all_boards -------------------------- *)
NBoards == Len(config.paraInfoList)

\* process_all_boards up to its loop
process_all_boards ==
  /\ pc = "process_all_boards"
  /\ console' = console \o <<"pg", "board_count">>
  /\ log' = log \o <<Info("pg", 0), Info("board_count", NBoards)>>
  /\ all_results' = <<>>
  /\ total_processed' = 0
  /\ i' = 1
  /\ pc' = "loop"
  /\ UNCHANGED <<invocation, config, files, df_err_rpt, df_helf_input,
                 df_output, fault_mappings, pos, matched_count,
                 not_matched_count, compared, written, processed, final_df,
                 output_file, exit_code>>
  /\ UNCHANGED normVars

\* the head of the loop over paraInfoList: the next board, if any
LoopBoard ==
  /\ pc = "loop"
  /\ i <= NBoards
  /\ console' = Append(console, "board")
  /\ log' = Append(log, Info("board", i))
  /\ pc' = "read"
  /\ UNCHANGED <<invocation, config, files, i, df_err_rpt, df_helf_input,
                 df_output, fault_mappings, pos, matched_count,
                 not_matched_count, compared, written, all_results,
                 total_processed, processed, final_df, output_file,
                 exit_code>>
  /\ UNCHANGED normVars

\* mutant: the except branch leaves the loop instead of continuing
BoardFailedAborts(lg, cs) ==
  /\ console' = Append(cs, "board_error")
  /\ log' = Append(lg, LogRec("ERROR", "board_error", i))
  /\ processed' = Append(processed, "failed")
  /\ i' = Len(config.paraInfoList) + 1
  /\ pc' = "loop"

\* the except branch of the loop: the board is logged and skipped; lg and
\* cs are the log and the console as the failing step left them
BoardFailed(lg, cs) ==
  /\ console' = Append(cs, "board_error")
  /\ log' = Append(lg, LogRec("ERROR", "board_error", i))
  /\ processed' = Append(processed, "failed")
  /\ i' = i + 1
  /\ pc' = "loop"

read_input_files_for_board ==
  /\ pc = "read"
  /\ LET lg == log \o <<Info("read_erpt", i), Info("sheet", i)>>
         cs == console \o <<"read_erpt", "sheet">>
     IN  IF files.erpt[i].status = "missing" \/ files.helf.status # "ok"
           THEN /\ BoardFailed(lg, cs)
                /\ UNCHANGED <<df_err_rpt, df_helf_input>>
           ELSE /\ df_err_rpt' = files.erpt[i].rows
                /\ df_helf_input' = files.helf.rows
                /\ console' = Append(cs, "read_done")
                /\ log' = Append(lg, Info("read_done",
                                          Len(files.erpt[i].rows)))
                /\ pc' = "prepare"
                /\ UNCHANGED <<i, processed>>
  /\ UNCHANGED <<invocation, config, files, df_output, fault_mappings, pos,
                 matched_count, not_matched_count, compared, written,
                 all_results, total_processed, final_df, output_file,
                 exit_code>>
  /\ UNCHANGED normVars

(* ----------------------- prepare_output_for_board ---------------------- *)
\* get_board_config: the module code is the second '_'-separated part of
\* the folder name, uppercased (parts[1] raises IndexError without one)
FoldParts(board_cfg) == Split(board_cfg.board_fold_name, "_")

module_code(board_cfg) == Upper(FoldParts(board_cfg)[2])

\* the columns of a board's output table, in the order they are created
OutputColumns(pg_name, board_cfg) ==
  <<ColMember, ColDevice, ColDeviceNo,
    IdentCol(pg_name, module_code(board_cfg)),
    VpCol(get_vp_prefix(pg_name)),
    ColDesc, ColDescEn, ColCode, ColBoard>>

\* the generated identifier (TDK name) of a row
Identifier(pg_name, board_cfg, r) ==
  Upper(pg_name) \o <<"_ERPT_ACTIVE.">> \o module_code(board_cfg) \o <<"_">>
    \o Upper(Str(r.MemberName)) \o <<"_">> \o Str(r.Device) \o <<"_">>
    \o Str(r.DeviceNo)

\* the generated address expression (VP variable) of a row
AddressExpr(vp_prefix, board_cfg, r) ==
  vp_prefix \o <<"errRptInject[">> \o board_cfg.boardId \o <<"][">>
    \o OffsetStr(r.ByteAddr) \o <<"][">> \o OffsetStr(r.BitPos) \o <<"]">>

\* mutant: the fault-code column is left unset and reads back as 'nan'
InitialFaultCodeUnset == <<"n", "a", "n">>

\* the fault code every output record starts with
InitialFaultCode == <<>>

\* the output record of one fault-report row
OutputRow(pg_name, board_cfg, r) ==
  RowOf(OutputColumns(pg_name, board_cfg),
        <<Upper(Str(r.MemberName)), r.Device, r.DeviceNo,
          Identifier(pg_name, board_cfg, r),
          AddressExpr(get_vp_prefix(pg_name), board_cfg, r),
          CollapseNewlines(Str(r.FaultDesc)),
          Str(r.FaultDescEn),
          InitialFaultCode,
          board_cfg.board_fold_name>>)

\* what get_vp_prefix prints when it falls back to the default
VpWarning(pg_name) ==
  IF VpPrefixMissing(pg_name) THEN <<"vp_prefix_warning">> ELSE <<>>

prepare_output_for_board ==
  /\ pc = "prepare"
  /\ LET board_cfg == config.paraInfoList[i]
         pg_name == config.pgName
     IN  IF Len(FoldParts(board_cfg)) < 2
           THEN /\ BoardFailed(log, console)
                /\ UNCHANGED df_output
           ELSE LET cs == console \o VpWarning(pg_name)
                            \o <<"board_config", "vp_prefix">>
                    lg == log \o <<Info("board_config", i),
                                   Info("vp_prefix", i)>>
                IN  IF files.erpt[i].status = "no_column"
                      THEN /\ BoardFailed(lg, cs)
                           /\ UNCHANGED df_output
                      ELSE /\ df_output' =
                                [columns |-> OutputColumns(pg_name, board_cfg),
                                 rows |-> [k \in 1..Len(df_err_rpt) |->
                                             OutputRow(pg_name, board_cfg,
                                                       df_err_rpt[k])]]
                           /\ console' = Append(cs, "prepared")
                           /\ log' = Append(lg, Info("prepared",
                                                     Len(df_err_rpt)))
                           /\ pc' = "mappings"
                           /\ UNCHANGED <<i, processed>>
  /\ UNCHANGED <<invocation, config, files, df_err_rpt, df_helf_input,
                 fault_mappings, pos, matched_count, not_matched_count,
                 compared, written, all_results, total_processed, final_df,
                 output_file, exit_code>>
  /\ UNCHANGED normVars

(* ---------------------- add_fault_codes_for_board ---------------------- *)
\* mutant: the lookup side is cleaned without .lower()
MappingNoLower(row) ==
  [desc |-> RemovePunct(Strip(Str(row.desc))), code |-> Str(row.code)]

\* one entry of fault_mappings: the cleaned description and the code, both
\* read as text
Mapping(row) == [desc |-> Normalize(Str(row.desc)), code |-> Str(row.code)]

\* the first part of add_fault_codes_for_board: the lookup sequence, in the
\* row order of the lookup sheet
BuildMappings ==
  /\ pc = "mappings"
  /\ fault_mappings' = [k \in 1..Len(df_helf_input) |->
                          Mapping(df_helf_input[k])]
  /\ console' = console \o <<"match_start", "mapping_count">>
  /\ log' = log \o <<Info("match_start", i),
                     Info("mapping_count", Len(df_helf_input))>>
  /\ matched_count' = 0
  /\ not_matched_count' = 0
  /\ compared' = {}
  /\ written' = {}
  /\ pos' = 1
  /\ pc' = "match"
  /\ UNCHANGED <<invocation, config, files, i, df_err_rpt, df_helf_input,
                 df_output, all_results, total_processed, processed,
                 final_df, output_file, exit_code>>
  /\ UNCHANGED normVars

\* mutant: the containment test is dropped, only equal texts match
MatchesEqualOnly(clean_fault_desc, clean_helf_desc) ==
  clean_fault_desc = clean_helf_desc

\* the test of line 166: equal, or the description is contained in the entry
Matches(clean_fault_desc, clean_helf_desc) ==
  \/ clean_fault_desc = clean_helf_desc
  \/ Contains(clean_helf_desc, clean_fault_desc)

\* mutant: the missing-description test is dropped
IsNaNever(v) == FALSE

\* pd.isna(fault_desc)
IsNa(v) == v = NaN

\* mutant: the scan does not break at the first match, the last match wins
ScanLast(clean_fault_desc, mappings, k) ==
  LET hits == {h \in k..Len(mappings) :
                 \/ clean_fault_desc = mappings[h].desc
                 \/ Contains(mappings[h].desc, clean_fault_desc)}
  IN  IF hits = {} THEN 0 ELSE CHOOSE h \in hits : \A g \in hits : g <= h

RECURSIVE ScanFrom(_, _, _)
\* the inner loop: the index of the entry the scan from k breaks at, 0 when
\* it runs to the end
ScanFrom(clean_fault_desc, mappings, k) ==
  IF k > Len(mappings) THEN 0
  ELSE IF Matches(clean_fault_desc, mappings[k].desc) THEN k
  ELSE ScanFrom(clean_fault_desc, mappings, k + 1)

\* the body of the loop over the English descriptions, for row pos
MatchRecord ==
  /\ pc = "match"
  /\ pos <= Len(df_err_rpt)
  /\ LET fault_desc == df_err_rpt[pos].FaultDescEn
     IN  IF IsNa(fault_desc)
           THEN UNCHANGED <<df_output, matched_count, not_matched_count,
                            compared, written, log>>
           ELSE LET clean_fault_desc == Normalize(Str(fault_desc))
                    hit == ScanFrom(clean_fault_desc, fault_mappings, 1)
                IN  /\ compared' = compared \cup {pos}
                    /\ IF hit > 0
                         THEN /\ df_output' =
                                   [df_output EXCEPT !.rows[pos][ColCode] =
                                      fault_mappings[hit].code]
                              /\ written' = written \cup {pos}
                              /\ matched_count' = matched_count + 1
                              /\ log' = Append(log, Info("matched", pos))
                              /\ UNCHANGED not_matched_count
                         ELSE /\ not_matched_count' = not_matched_count + 1
                              /\ log' = Append(log, LogRec("WARNING",
                                                           "not_matched", pos))
                              /\ UNCHANGED <<df_output, written,
                                             matched_count>>
  /\ pos' = pos + 1
  /\ UNCHANGED <<invocation, config, files, pc, i, df_err_rpt,
                 df_helf_input, fault_mappings, all_results, total_processed,
                 processed, final_df, output_file, console, exit_code>>
  /\ UNCHANGED normVars

\* the end of add_fault_codes_for_board and the rest of the try block: the
\* board's table joins all_results
FinishBoard ==
  /\ pc = "match"
  /\ pos > Len(df_err_rpt)
  /\ console' = console \o <<"match_done", "board_done">>
  /\ log' = log \o <<Info("match_done", matched_count),
                     Info("board_done", Len(df_output.rows))>>
  /\ all_results' = Append(all_results, df_output)
  /\ total_processed' = total_processed + Len(df_output.rows)
  /\ processed' = Append(processed, "ok")
  /\ i' = i + 1
  /\ pc' = "loop"
  /\ UNCHANGED <<invocation, config, files, df_err_rpt, df_helf_input,
                 df_output, fault_mappings, pos, matched_count,
                 not_matched_count, compared, written, final_df, output_file,
                 exit_code>>
  /\ UNCHANGED normVars

\* after the loop, with a board processed: the tables are merged
MergeResults ==
  /\ pc = "loop"
  /\ i > NBoards
  /\ all_results # <<>>
  /\ final_df' = Concat(all_results)
  /\ console' = Append(console, "merged")
  /\ log' = Append(log, Info("merged", Len(Concat(all_results).rows)))
  /\ pc' = "save"
  /\ UNCHANGED <<invocation, config, files, i, df_err_rpt, df_helf_input,
                 df_output, fault_mappings, pos, matched_count,
                 not_matched_count, compared, written, all_results,
                 total_processed, processed, output_file, exit_code>>
  /\ UNCHANGED normVars

\* after the loop, with no board processed: sys.exit(1)
ExitNoBoards ==
  /\ pc = "loop"
  /\ i > NBoards
  /\ all_results = <<>>
  /\ console' = Append(console, "no_board")
  /\ log' = Append(log, LogRec("ERROR", "no_board", 0))
  /\ Exit(1)
  /\ UNCHANGED <<invocation, config, files, i, df_err_rpt, df_helf_input,
                 df_output, fault_mappings, pos, matched_count,
                 not_matched_count, compared, written, all_results,
                 total_processed, processed, final_df, output_file>>
  /\ UNCHANGED normVars

(* ----------------------------- save_results ---------------------------- *)
\* the list output_cols of save_results; "*" is the wildcard written in the
\* first pattern
output_cols(pg_name, vp_prefix) ==
  <<pg_name \o <<"_ERPT_ACTIVE.", "*">> \o IdentTail,
    VpCol(vp_prefix),
    ColDesc,
    ColCode,
    ColDescEn>>

\* pattern.replace('*', '')
DropStar(pattern) == SelectSeq(pattern, LAMBDA t : t # "*")

\* any(pattern.replace('*', '') in col for pattern in output_cols)
ColumnSelected(col, patterns) ==
  \E k \in 1..Len(patterns) : Contains(col, DropStar(patterns[k]))

RECURSIVE Dedupe(_, _)
\* list(dict.fromkeys(cols)): first occurrences, in order
Dedupe(cols, seen) ==
  IF cols = <<>> THEN <<>>
  ELSE IF Head(cols) \in seen THEN Dedupe(Tail(cols), seen)
  ELSE <<Head(cols)>> \o Dedupe(Tail(cols), seen \cup {Head(cols)})

\* the columns save_results hands to to_csv
actual_cols(df, pg_name) ==
  LET patterns == output_cols(pg_name, get_vp_prefix(pg_name))
      picked == SelectSeq(df.columns,
                          LAMBDA col : ColumnSelected(col, patterns))
  IN  Dedupe(picked \o <<ColDesc, ColCode, ColDescEn>>, {})

\* df.to_csv(columns=cols): the file's header and its rows
CsvFile(df, cols) ==
  [exists |-> TRUE,
   columns |-> cols,
   rows |-> [k \in 1..Len(df.rows) |->
               [c \in 1..Len(cols) |-> df.rows[k][cols[c]]]]]

\* len(df[df['故障码'] != ''])
with_fault_code(df) ==
  Cardinality({k \in 1..Len(df.rows) : df.rows[k][ColCode] # <<>>})

\* save_results and the end of main; writing the file may fail, which
\* nothing catches
save_results ==
  /\ pc = "save"
  /\ \E write_ok \in BOOLEAN :
       LET cs == console \o VpWarning(config.pgName)
       IN  IF write_ok
             THEN /\ output_file' =
                       CsvFile(final_df, actual_cols(final_df, config.pgName))
                  /\ console' = cs \o <<"saved", "statistics", "finished">>
                  /\ log' = log \o <<Info("saved", 0),
                                     Info("statistics",
                                          with_fault_code(final_df)),
                                     Info("board_distribution", 0),
                                     Info("finished", 0)>>
                  /\ pc' = "done"
                  /\ exit_code' = 0
             ELSE /\ console' = cs
                  /\ Exit(1)
                  /\ UNCHANGED <<output_file, log>>
  /\ UNCHANGED <<invocation, config, files, i, df_err_rpt, df_helf_input,
                 df_output, fault_mappings, pos, matched_count,
                 not_matched_count, compared, written, all_results,
                 total_processed, processed, final_df>>
  /\ UNCHANGED normVars

Next ==
  \/ Main
  \/ load_config
  \/ setup_logging
  \/ process_all_boards
  \/ LoopBoard
  \/ read_input_files_for_board
  \/ prepare_output_for_board
  \/ BuildMappings
  \/ MatchRecord
  \/ FinishBoard
  \/ MergeResults
  \/ ExitNoBoards
  \/ save_results

Spec == Init /\ [][Next]_vars

\* the run is one sequential process: it takes its next step whenever it
\* has one
FairSpec == Spec /\ WF_vars(Next)

(* ----------------------- the normalizer on its own --------------------- *)
\* characters of the strings the normalizer is applied to
NormChars == {"a", "A", "!", " ", "_"}

NormInit ==
  /\ InitRun(RunInput("ok", <<"W", "S">>, <<>>, OkSheet(<<>>)))
  /\ ns \in SeqsUpTo(NormChars, MaxLen)
  /\ nout = <<>>
  /\ npc = "start"

\* the cleaning expression applied to the input
NormalizeOnce ==
  /\ npc = "start"
  /\ nout' = <<Normalize(ns)>>
  /\ npc' = "once"
  /\ UNCHANGED ns
  /\ UNCHANGED runVars

\* the cleaning expression applied to its own result
NormalizeTwice ==
  /\ npc = "once"
  /\ nout' = Append(nout, Normalize(nout[1]))
  /\ npc' = "twice"
  /\ UNCHANGED ns
  /\ UNCHANGED runVars

NormNext == NormalizeOnce \/ NormalizeTwice

SpecNorm == NormInit /\ [][NormNext]_vars

(* ======================================================================= *)
(* The claims                                                              *)
(* ======================================================================= *)

\* every table of output records the run holds
RecordTables == {df_output, final_df} \cup Range(all_results)

\* the fault codes of the lookup sequence built for the boards
LookupCodes == {fault_mappings[k].code : k \in 1..Len(fault_mappings)}

\* the rows of the current board the matcher has gone past
Matched == IF pc = "match" THEN 1..(pos - 1) ELSE {}

\* the fault code the current board's record p holds
CodeOf(p) == df_output.rows[p][ColCode]

\* the cleaned English description of the current board's row p
CleanDesc(p) == Normalize(Str(df_err_rpt[p].FaultDescEn))

\* the cleaned text of row k of the lookup sheet
CleanLookup(k) == Normalize(Str(df_helf_input[k].desc))

\* C1: in every state, each output record's fault code (in the table being
\* built, in the tables of the finished boards and in the merged table) is
\* the empty string or the fault code of an entry of the lookup sequence.
C1_FaultCodeEmptyOrFromLookup ==
  \A t \in RecordTables :
    \A k \in 1..Len(t.rows) :
      t.rows[k][ColCode] = <<>> \/ t.rows[k][ColCode] \in LookupCodes

\* C1 happens: the merged table holds a record with a code and one without
C1_Witness ==
  /\ pc = "save"
  /\ \E k \in 1..Len(final_df.rows) : final_df.rows[k][ColCode] = <<>>
  /\ \E k \in 1..Len(final_df.rows) : final_df.rows[k][ColCode] # <<>>

\* C2 as stated: whenever a description and a lookup entry are equal once
\* cleaned, the record gets that entry's code, whatever precedes the entry.
C2_ExactMatchAlwaysWins ==
  \A p \in Matched :
    df_err_rpt[p].FaultDescEn # NaN =>
      \A k \in 1..Len(df_helf_input) :
        CleanDesc(p) = CleanLookup(k) =>
          CodeOf(p) = Str(df_helf_input[k].code)

\* C2 amended: whenever a description and a lookup entry L are equal once
\* cleaned, and no entry before L equals or contains the cleaned
\* description, the record gets L's code.
C2_ExactMatchWinsUnlessPreceded ==
  \A p \in Matched :
    df_err_rpt[p].FaultDescEn # NaN =>
      \A k \in 1..Len(df_helf_input) :
        (/\ CleanDesc(p) = CleanLookup(k)
         /\ \A j \in 1..(k - 1) : ~Contains(CleanLookup(j), CleanDesc(p)))
          => CodeOf(p) = Str(df_helf_input[k].code)

\* C2 happens: a record took the code of an equal entry that is not the
\* first of the lookup sequence
C2_Witness ==
  \E p \in Matched :
    /\ df_err_rpt[p].FaultDescEn # NaN
    /\ \E k \in 2..Len(df_helf_input) :
         /\ CleanDesc(p) = CleanLookup(k)
         /\ \A j \in 1..(k - 1) : ~Contains(CleanLookup(j), CleanDesc(p))
         /\ CodeOf(p) = Str(df_helf_input[k].code)
         /\ CodeOf(p) # Str(df_helf_input[1].code)

\* entry k of the lookup sequence equals or contains the description of row p
EntryMatches(p, k) ==
  \/ fault_mappings[k].desc = CleanDesc(p)
  \/ Contains(fault_mappings[k].desc, CleanDesc(p))

\* C3: the lookup sequence keeps the row order of the lookup sheet, and a
\* record with a description gets the code of the entry of smallest index
\* that equals or contains the cleaned description, whatever the entries
\* after it are; with no such entry its code stays empty.
C3_FirstMatchInRowOrderWins ==
  /\ pc = "match" =>
       /\ Len(fault_mappings) = Len(df_helf_input)
       /\ \A k \in 1..Len(df_helf_input) :
            /\ fault_mappings[k].desc = CleanLookup(k)
            /\ fault_mappings[k].code = Str(df_helf_input[k].code)
  /\ \A p \in Matched :
       df_err_rpt[p].FaultDescEn # NaN =>
         \/ \E k \in 1..Len(fault_mappings) :
              /\ EntryMatches(p, k)
              /\ \A j \in 1..(k - 1) : ~EntryMatches(p, j)
              /\ CodeOf(p) = fault_mappings[k].code
         \/ /\ \A k \in 1..Len(fault_mappings) : ~EntryMatches(p, k)
            /\ CodeOf(p) = <<>>

\* C3 happens: two entries with different codes match a description, and
\* the record holds the code of the earlier one
C3_Witness ==
  \E p \in Matched :
    /\ df_err_rpt[p].FaultDescEn # NaN
    /\ \E j, k \in 1..Len(fault_mappings) :
         /\ j < k
         /\ EntryMatches(p, j)
         /\ EntryMatches(p, k)
         /\ \A h \in 1..(j - 1) : ~EntryMatches(p, h)
         /\ fault_mappings[j].code # fault_mappings[k].code
         /\ CodeOf(p) = fault_mappings[j].code

\* C4: cleaning a cleaned string changes nothing.
C4_NormalizeIdempotent == npc = "twice" => nout[2] = nout[1]

\* the rows of the current board with an English description, among S
WithDesc(S) == {p \in S : df_err_rpt[p].FaultDescEn # NaN}

\* C9: a row without English description is never compared with the lookup
\* sequence, keeps the empty fault code and is counted by neither counter;
\* so the two counters add up to the number of rows with a description the
\* matcher has gone past, and matched_count is the number of records whose
\* fault code was written.
C9_NullDescriptionsSkipped ==
  pc = "match" =>
    /\ \A p \in Matched \ WithDesc(Matched) :
         p \notin compared /\ p \notin written /\ CodeOf(p) = <<>>
    /\ compared = WithDesc(Matched)
    /\ matched_count + not_matched_count = Cardinality(WithDesc(Matched))
    /\ matched_count = Cardinality(written)
    /\ written \subseteq compared

\* C9 happens: a board is matched to its end, with a row without
\* description and a row that was matched
C9_Witness ==
  /\ pc = "match"
  /\ pos > Len(df_err_rpt)
  /\ Matched # WithDesc(Matched)
  /\ matched_count = 1

\* C10: a description that is empty once cleaned takes the code of the
\* first entry of a non-empty lookup sequence, and stays unmatched when
\* the lookup sequence is empty.
C10_EmptyDescriptionMatchesFirstEntry ==
  \A p \in WithDesc(Matched) :
    CleanDesc(p) = <<>> =>
      IF fault_mappings # <<>>
        THEN p \in written /\ CodeOf(p) = fault_mappings[1].code
        ELSE p \notin written /\ CodeOf(p) = <<>>

\* C10 happens: a description of punctuation only took the first code of a
\* lookup sequence of two entries
C10_Witness ==
  \E p \in WithDesc(Matched) :
    /\ CleanDesc(p) = <<>>
    /\ Len(fault_mappings) = 2
    /\ CodeOf(p) = fault_mappings[1].code
    /\ CodeOf(p) # fault_mappings[2].code

\* board k fails: its sheet or the lookup sheet cannot be read, a column
\* is missing, or its folder name has no '_'
BoardBad(k) ==
  \/ files.erpt[k].status # "ok"
  \/ files.helf.status # "ok"
  \/ "_" \notin Range(config.paraInfoList[k].board_fold_name)

RECURSIVE SourcesFrom(_)
\* <<board, row>> for every row of the sheets of the boards from k on that
\* do not fail, in configuration order and row order
SourcesFrom(k) ==
  IF k > NBoards THEN <<>>
  ELSE (IF BoardBad(k) THEN <<>>
        ELSE [r \in 1..Len(files.erpt[k].rows) |-> <<k, r>>])
       \o SourcesFrom(k + 1)

\* the place in all_results of the table of board k
ResultIndex(k) == Cardinality({h \in 1..k : ~BoardBad(h)})

\* C5: the loop goes through every board whether or not boards before it
\* failed, exactly the boards whose read or transform step raises are
\* skipped, and the merged table is, row for row and in configuration
\* order, the tables of the boards that did not fail.
C5_FailedBoardsSkippedOthersMerged ==
  /\ pc = "loop" => Len(processed) = i - 1
  /\ \A k \in 1..Len(processed) : (processed[k] = "failed") <=> BoardBad(k)
  /\ pc \in {"save", "done"} =>
       LET src == SourcesFrom(1)
       IN  /\ Len(processed) = NBoards
           /\ Len(final_df.rows) = Len(src)
           /\ \A n \in 1..Len(src) :
                LET k == src[n][1]
                    r == src[n][2]
                    t == all_results[ResultIndex(k)]
                    row == final_df.rows[n]
                IN  /\ row[ColBoard] = config.paraInfoList[k].board_fold_name
                    /\ row[ColDescEn] = Str(files.erpt[k].rows[r].FaultDescEn)
                    /\ \A c \in DOMAIN row :
                         row[c] = IF c \in Range(t.columns)
                                    THEN t.rows[r][c] ELSE NaN

\* C5 happens: the first of two boards failed and the run completed with
\* the rows of the second
C5_Witness ==
  /\ pc = "done"
  /\ processed = <<"failed", "ok">>
  /\ final_df.rows # <<>>

\* a board was processed successfully
AnyBoardOk == "ok" \in Range(processed)

\* C6: with no board processed successfully the run ends with a non-zero
\* exit code, save_results is not reached and no output file exists; a
\* written output file means the run completed with exit code 0.
C6_ExitCodeAndOutputFile ==
  /\ (exit_code = -1) <=> (pc \notin {"exit", "done"})
  /\ ~AnyBoardOk =>
       /\ pc \notin {"save", "done"}
       /\ ~output_file.exists
       /\ pc = "exit" => exit_code > 0
  /\ output_file.exists => AnyBoardOk /\ pc = "done"
  /\ pc = "done" => exit_code = 0 /\ output_file.exists
  /\ pc = "exit" => exit_code > 0

\* the run has ended, by sys.exit, by an uncaught exception or by returning
\* from main
Terminated == pc \in {"exit", "done"}

\* C6 (with termination): the relation of C6 between boards processed, exit
\* code and output file holds throughout, and every run ends.
C6_RunEndsWithExitCode == []C6_ExitCodeAndOutputFile /\ <>Terminated

\* C6 happens: every board of a run with boards failed and the run exited
C6_Witness ==
  /\ pc = "exit"
  /\ NBoards > 0
  /\ Len(processed) = NBoards
  /\ ~AnyBoardOk
  /\ exit_code = 1
  /\ ~output_file.exists

\* the boards that were processed successfully
OkBoards == {k \in 1..Len(processed) : processed[k] = "ok"}

\* C7: with non-empty module codes the written file has exactly the five
\* columns identifier, address expression, native description, fault code,
\* English description, in this order.
C7_FiveColumnsInOrder ==
  (/\ output_file.exists
   /\ \A k \in OkBoards : module_code(config.paraInfoList[k]) # <<>>)
    => /\ Len(output_file.columns) = 5
       /\ \E k \in OkBoards :
            output_file.columns[1] =
              IdentCol(config.pgName, module_code(config.paraInfoList[k]))
       /\ output_file.columns[2] = VpCol(get_vp_prefix(config.pgName))
       /\ output_file.columns[3] = ColDesc
       /\ output_file.columns[4] = ColCode
       /\ output_file.columns[5] = ColDescEn

\* C8: with a platform name that is no key of the prefix table, a completed
\* run has the default prefix in every address expression and a warning
\* about the fallback in the log file.
C8_FallbackWarningInLog ==
  (VpPrefixMissing(config.pgName) /\ pc = "done")
    => /\ \A k \in 1..Len(final_df.rows) :
            SubSeq(final_df.rows[k][VpCol(DefaultVpPrefix)], 1, 1)
              = DefaultVpPrefix
       /\ \E k \in 1..Len(log) :
            log[k].level = "WARNING" /\ log[k].event = "vp_prefix_warning"

====
